---- MODULE Spec2Model ----
(***************************************************************************)
(* A model of streamlit_app.py: the envelope decoder (_clean_raw_bytes),   *)
(* the delta extractor (_process_chunk), the think-tag parser              *)
(* (ThinkParser) and the turn handler that applies the parser's events to  *)
(* the render document and commits the turn to the conversation history.   *)
(*                                                                         *)
(* A Python str is a sequence of one-character strings.                    *)
(***************************************************************************)
EXTENDS Integers, Sequences, FiniteSets, TLC

VARIABLES
    pc,               \* where the script is: "idle", "streaming", "turn_done", "crashed";
                      \* inside one call of process: "process", "returned"
    turn,             \* number of prompts submitted so far
    messages,         \* st.session_state.messages
    thinking,         \* st.session_state.thinking: id -> [content, open]
    parser,           \* the turn's ThinkParser: [buffer, in_think, open_think_id]
    thinking_order,   \* the turn's deque of block ids
    final_output,     \* the turn's list of answer fragments
    display_content,  \* the script variable display_content (Unbound until assigned)
    stream,           \* the deltas the server has still to send in this turn
    line,             \* the loop variable: the line received last
    fed,              \* history: the chunks passed to parser.process in this turn
    events,           \* history: the parts returned by parser.process in this turn
    calls,            \* history: the parts of each parser.process call of this turn
    junk,             \* number of lines of this turn that carried no response delta
    errors,           \* the st.error reports of this turn
    exc               \* the exception that ended the script run, or "none"

vars == <<pc, turn, messages, thinking, parser, thinking_order, final_output,
          display_content, stream, line, fed, events, calls, junk, errors, exc>>

----------------------------------------------------------------------------
(* Bounds of the model *)

\* the largest number of deltas a pool text is split into
MaxDeltas == 2
\* the largest number of lines without a response delta in one turn
MaxJunk == 1
\* the largest number of turns of a session
MaxTurns == 2

----------------------------------------------------------------------------
(* Strings *)

RECURSIVE Join(_)
\* "".join(parts)
Join(ss) == IF ss = <<>> THEN <<>> ELSE Head(ss) \o Join(Tail(ss))

\* the literal "<think>" searched at line 67
OpenMarker == <<"<", "t", "h", "i", "n", "k", ">">>
\* the literal "</think>" searched at line 81
CloseMarker == <<"<", "/", "t", "h", "i", "n", "k", ">">>
\* the 7 of buffer[start + 7:]
OpenSkip == 7
\* the 8 of buffer[end + 8:]
CloseSkip == 8

\* does needle occur in s at the 0-based index i
OccursAt(s, needle, i) ==
    /\ i >= 0
    /\ i + Len(needle) <= Len(s)
    /\ SubSeq(s, i + 1, i + Len(needle)) = needle

\* str.find: the lowest 0-based index of needle in s, or -1
Find(s, needle) ==
    LET hits == {i \in 0..Len(s) : OccursAt(s, needle, i)}
    IN  IF hits = {} THEN -1
        ELSE CHOOSE i \in hits : \A j \in hits : i <= j

\* s[:n]
Upto(s, n) == SubSeq(s, 1, n)
\* s[n:]
From(s, n) == SubSeq(s, n + 1, Len(s))

----------------------------------------------------------------------------
(* ThinkParser *)

\* open_think_id = None
NoId == <<>>

\* f"think-{len(parts)}"
ThinkId(parts) == <<"think-", Len(parts)>>

\* the tuples appended to parts
TextPart(s) == [type |-> "text", id |-> NoId, text |-> s]
ThinkOpenPart(id) == [type |-> "think_open", id |-> id, text |-> <<>>]
ThinkUpdatePart(id, s) == [type |-> "think_update", id |-> id, text |-> s]
ThinkClosePart(id) == [type |-> "think_close", id |-> id, text |-> <<>>]

\* ThinkParser.__init__
NewParser == [buffer |-> <<>>, in_think |-> FALSE, open_think_id |-> NoId]

\* (mutant) a trailing "<" is held back in the buffer for the next call
ScanStepHoldsBack(p) ==
    LET start == Find(p.buffer, OpenMarker)
        held == p.buffer # <<>> /\ p.buffer[Len(p.buffer)] = "<"
        flushed == IF held THEN Upto(p.buffer, Len(p.buffer) - 1) ELSE p.buffer
    IN  IF start = -1
        THEN [p EXCEPT
                !.parts = IF flushed # <<>>
                          THEN Append(p.parts, TextPart(flushed))
                          ELSE p.parts,
                !.buffer = IF held THEN <<"<">> ELSE <<>>,
                !.done = TRUE]
        ELSE LET before == IF start > 0
                           THEN Append(p.parts, TextPart(Upto(p.buffer, start)))
                           ELSE p.parts
                 id == ThinkId(before)
             IN  [p EXCEPT
                    !.buffer = From(p.buffer, start + OpenSkip),
                    !.in_think = TRUE,
                    !.open_think_id = id,
                    !.parts = Append(before, ThinkOpenPart(id))]

\* (mutant) the opening marker is left in the buffer
ScanStepKeepsMarker(p) ==
    LET start == Find(p.buffer, OpenMarker)
    IN  IF start = -1
        THEN [p EXCEPT
                !.parts = IF p.buffer # <<>>
                          THEN Append(p.parts, TextPart(p.buffer))
                          ELSE p.parts,
                !.buffer = <<>>,
                !.done = TRUE]
        ELSE LET before == IF start > 0
                           THEN Append(p.parts, TextPart(Upto(p.buffer, start)))
                           ELSE p.parts
                 id == ThinkId(before)
             IN  [p EXCEPT
                    !.buffer = From(p.buffer, start),
                    !.in_think = TRUE,
                    !.open_think_id = id,
                    !.parts = Append(before, ThinkOpenPart(id))]

\* the branch "if not self.in_think" of one loop iteration; p carries the
\* parser's fields, the local parts and whether the loop has hit a break
ScanStep(p) ==
    LET start == Find(p.buffer, OpenMarker)
    IN  IF start = -1
        THEN [p EXCEPT
                !.parts = IF p.buffer # <<>>
                          THEN Append(p.parts, TextPart(p.buffer))
                          ELSE p.parts,
                !.buffer = <<>>,
                !.done = TRUE]
        ELSE LET before == IF start > 0
                           THEN Append(p.parts, TextPart(Upto(p.buffer, start)))
                           ELSE p.parts
                 id == ThinkId(before)
             IN  [p EXCEPT
                    !.buffer = From(p.buffer, start + OpenSkip),
                    !.in_think = TRUE,
                    !.open_think_id = id,
                    !.parts = Append(before, ThinkOpenPart(id))]

\* (mutant) the close transition leaves in_think set
ThinkStepStaysInThink(p) ==
    LET end == Find(p.buffer, CloseMarker)
    IN  IF end = -1
        THEN [p EXCEPT
                !.parts = Append(p.parts, ThinkUpdatePart(p.open_think_id, p.buffer)),
                !.buffer = <<>>,
                !.done = TRUE]
        ELSE [p EXCEPT
                !.parts = p.parts \o
                    << ThinkUpdatePart(p.open_think_id, Upto(p.buffer, end)),
                       ThinkClosePart(p.open_think_id) >>,
                !.buffer = From(p.buffer, end + CloseSkip),
                !.open_think_id = NoId]

\* (mutant) the close transition leaves open_think_id set
ThinkStepKeepsId(p) ==
    LET end == Find(p.buffer, CloseMarker)
    IN  IF end = -1
        THEN [p EXCEPT
                !.parts = Append(p.parts, ThinkUpdatePart(p.open_think_id, p.buffer)),
                !.buffer = <<>>,
                !.done = TRUE]
        ELSE [p EXCEPT
                !.parts = p.parts \o
                    << ThinkUpdatePart(p.open_think_id, Upto(p.buffer, end)),
                       ThinkClosePart(p.open_think_id) >>,
                !.buffer = From(p.buffer, end + CloseSkip),
                !.in_think = FALSE]

\* (mutant) the close transition skips 7 characters, not 8
ThinkStepSkipsSeven(p) ==
    LET end == Find(p.buffer, CloseMarker)
    IN  IF end = -1
        THEN [p EXCEPT
                !.parts = Append(p.parts, ThinkUpdatePart(p.open_think_id, p.buffer)),
                !.buffer = <<>>,
                !.done = TRUE]
        ELSE [p EXCEPT
                !.parts = p.parts \o
                    << ThinkUpdatePart(p.open_think_id, Upto(p.buffer, end)),
                       ThinkClosePart(p.open_think_id) >>,
                !.buffer = From(p.buffer, end + OpenSkip),
                !.in_think = FALSE,
                !.open_think_id = NoId]

\* the branch "else" (self.in_think) of one loop iteration
ThinkStep(p) ==
    LET end == Find(p.buffer, CloseMarker)
    IN  IF end = -1
        THEN [p EXCEPT
                !.parts = Append(p.parts, ThinkUpdatePart(p.open_think_id, p.buffer)),
                !.buffer = <<>>,
                !.done = TRUE]
        ELSE [p EXCEPT
                !.parts = p.parts \o
                    << ThinkUpdatePart(p.open_think_id, Upto(p.buffer, end)),
                       ThinkClosePart(p.open_think_id) >>,
                !.buffer = From(p.buffer, end + CloseSkip),
                !.in_think = FALSE,
                !.open_think_id = NoId]

\* (mutant) a <think> met inside a block before its </think> opens a block
LoopStepReopens(p) ==
    LET start == Find(p.buffer, OpenMarker)
        end == Find(p.buffer, CloseMarker)
    IN  IF ~p.in_think \/ (start # -1 /\ (end = -1 \/ start < end))
        THEN ScanStep(p)
        ELSE ThinkStep(p)

\* one iteration of "while True"
LoopStep(p) == IF ~p.in_think THEN ScanStep(p) ELSE ThinkStep(p)

RECURSIVE Loop(_)
\* the loop "while True", run until a break
Loop(p) == IF p.done THEN p ELSE Loop(LoopStep(p))

\* (mutant) every call starts in the Scanning state
ProcessForgetsState(ps, text) ==
    LET p == Loop([buffer |-> ps.buffer \o text,
                   in_think |-> FALSE,
                   open_think_id |-> NoId,
                   parts |-> <<>>,
                   done |-> FALSE])
    IN  [parser |-> [buffer |-> p.buffer,
                     in_think |-> p.in_think,
                     open_think_id |-> p.open_think_id],
         parts |-> p.parts]

\* ThinkParser.process(text): the parser's fields after the call and the
\* parts it returns
Process(ps, text) ==
    LET p == Loop([buffer |-> ps.buffer \o text,
                   in_think |-> ps.in_think,
                   open_think_id |-> ps.open_think_id,
                   parts |-> <<>>,
                   done |-> FALSE])
    IN  [parser |-> [buffer |-> p.buffer,
                     in_think |-> p.in_think,
                     open_think_id |-> p.open_think_id],
         parts |-> p.parts]

----------------------------------------------------------------------------
(* The values json.loads returns, and Python's None *)

\* None (also what json.loads returns for null)
JNone == [t |-> "None"]
JStr(s) == [t |-> "str", s |-> s]
JNum(n) == [t |-> "num", n |-> n]
JArr(a) == [t |-> "arr", a |-> a]
JObj(o) == [t |-> "obj", o |-> o]
\* the dict {}
NoKeys == [k \in {} |-> JNone]
\* a payload json.loads rejects (it raises json.JSONDecodeError)
NotJson == [t |-> "invalid"]
\* an exception raised inside a try block
Raised == [t |-> "raise"]

\* Python truth value of a decoded value
Truthy(v) ==
    CASE v.t = "None" -> FALSE
      [] v.t = "str" -> v.s # <<>>
      [] v.t = "num" -> v.n # 0
      [] v.t = "arr" -> v.a # <<>>
      [] v.t = "obj" -> DOMAIN v.o # {}
      [] OTHER -> FALSE

\* v.get(key, default): only a dict has .get (AttributeError otherwise)
PyGet(v, key, default) ==
    IF v.t # "obj" THEN Raised
    ELSE IF key \in DOMAIN v.o THEN v.o[key] ELSE default

\* v[0]: IndexError on an empty list or str, KeyError on a dict of string
\* keys, TypeError on a number or None
PyIndex0(v) ==
    CASE v.t = "arr" /\ v.a # <<>> -> v.a[1]
      [] v.t = "str" /\ v.s # <<>> -> JStr(<<v.s[1]>>)
      [] OTHER -> Raised

----------------------------------------------------------------------------
(* Lines of the transport *)

\* A line of bytes: the bytes before the payload (head), whether the bytes
\* decode as UTF-8, and what json.loads makes of the payload.
\* b"" is the keep-alive line iter_lines may yield.
EmptyLine == [head |-> "", utf8 |-> TRUE, payload |-> NotJson, empty |-> TRUE]
Line(head, utf8, payload) ==
    [head |-> head, utf8 |-> utf8, payload |-> payload, empty |-> FALSE]
\* the value of the loop variable before the first line
NoLine == [head |-> "", utf8 |-> TRUE, payload |-> NotJson, empty |-> FALSE]

\* the prefix line 20 tests for
DataPrefix == "data: "

\* json.loads(rest + payload) where rest is what is left of the head
Loads(rest, utf8, payload) ==
    IF ~utf8 \/ rest # "" \/ payload = NotJson THEN Raised ELSE payload

\* (mutant) _clean_raw_bytes without its try/except
CleanRawBytesUnguarded(l) ==
    IF l.head = DataPrefix
    THEN Loads("", l.utf8, l.payload)
    ELSE Loads(l.head, l.utf8, l.payload)

\* _clean_raw_bytes(line)
CleanRawBytes(l) ==
    LET parsed == IF l.head = DataPrefix
                  THEN Loads("", l.utf8, l.payload)
                  ELSE Loads(l.head, l.utf8, l.payload)
    IN  IF parsed = Raised THEN JNone ELSE parsed

\* (mutant) _process_chunk returning the content without the emptiness test
ProcessChunkKeepsEmpty(v) ==
    IF ~Truthy(v) THEN JNone
    ELSE LET content ==
                 IF v.t = "obj" /\ "choices" \in DOMAIN v.o
                 THEN PyGet(PyGet(PyIndex0(PyGet(v, "choices", JArr(<<JObj(NoKeys)>>))),
                                  "delta", JObj(NoKeys)),
                            "content", JNone)
                 ELSE PyGet(PyGet(v, "message", JObj(NoKeys)), "content", JNone)
         IN  IF content = Raised THEN JNone ELSE content

\* _process_chunk(line). A truthy value that is no dict raises in either
\* branch ("choices" in line, or line.get), which the except turns into None.
ProcessChunk(v) ==
    IF ~Truthy(v) THEN JNone
    ELSE LET content ==
                 IF v.t = "obj" /\ "choices" \in DOMAIN v.o
                 THEN PyGet(PyGet(PyIndex0(PyGet(v, "choices", JArr(<<JObj(NoKeys)>>))),
                                  "delta", JObj(NoKeys)),
                            "content", JNone)
                 ELSE PyGet(PyGet(v, "message", JObj(NoKeys)), "content", JNone)
         IN  IF content = Raised THEN JNone
             ELSE IF Truthy(content) THEN content ELSE JNone

\* the two envelope shapes
OpenAI(content) ==
    JObj([choices |-> JArr(<<JObj([delta |-> JObj([content |-> content])])>>)])
Ollama(content) == JObj([message |-> JObj([content |-> content])])

\* the ways the server wraps a delta into a line
Formats == {"openai-sse", "openai", "ollama"}
Wrap(f, s) ==
    CASE f = "openai-sse" -> Line(DataPrefix, TRUE, OpenAI(JStr(s)))
      [] f = "openai" -> Line("", TRUE, OpenAI(JStr(s)))
      [] OTHER -> Line("", TRUE, Ollama(JStr(s)))

\* lines that carry no delta of the response text
OtherLines ==
    { EmptyLine,
      Line(DataPrefix, TRUE, NotJson),                        \* data: [DONE]
      Line("", FALSE, Ollama(JStr(<<"a">>))),                 \* not UTF-8
      Line("data:", TRUE, Ollama(JStr(<<"a">>))),             \* prefix without the space
      Line("", TRUE, Ollama(JStr(<<>>))),                     \* empty content
      Line(DataPrefix, TRUE, OpenAI(JStr(<<>>))),
      Line("", TRUE, Ollama(JNone)),                          \* content null
      Line("", TRUE, OpenAI(JNone)),
      Line("", TRUE, JObj([message |-> JObj(NoKeys)])),       \* no content
      Line("", TRUE, JObj([message |-> JNone])),              \* message null
      Line("", TRUE, JObj([done |-> JNum(1)])),               \* no message
      Line("", TRUE, JObj(NoKeys)),
      Line("", TRUE, JObj([choices |-> JArr(<<>>)])),         \* choices []
      Line("", TRUE, JObj([choices |-> JArr(<<JObj(NoKeys)>>)])),
      Line("", TRUE, JObj([choices |-> JArr(<<JObj([delta |-> JObj(NoKeys)])>>)])),
      Line("", TRUE, JObj([choices |-> JNone])),
      Line("", TRUE, JObj([choices |-> JStr(<<"x">>)])),
      Line("", TRUE, JNum(5)),
      Line("", TRUE, JArr(<<JNum(1)>>)),
      Line("", TRUE, JStr(<<"c", "h", "o", "i", "c", "e", "s">>)),
      Line("", TRUE, JNone),
      Line("", TRUE, Ollama(JNum(0))),
      Line("", TRUE, Ollama(JNum(7))) }                       \* content is a number

----------------------------------------------------------------------------
(* The render projector *)

\* the value of a script variable no statement has assigned yet
Unbound == [bound |-> FALSE]

\* what one part does to the render document (lines 247-267)
ApplyPart(doc, part) ==
    CASE part.type = "text" ->
            [doc EXCEPT !.final_output = Append(@, part.text),
                        !.update_needed = TRUE]
      [] part.type = "think_open" ->
            [doc EXCEPT
                !.thinking = [id \in DOMAIN @ \cup {part.id} |->
                                 IF id = part.id
                                 THEN [content |-> <<>>, open |-> TRUE]
                                 ELSE @[id]],
                !.thinking_order = Append(@, part.id),
                !.update_needed = TRUE]
      [] part.type = "think_update" ->
            [doc EXCEPT !.thinking[part.id].content = @ \o part.text,
                        !.update_needed = TRUE]
      [] OTHER ->
            [doc EXCEPT !.thinking[part.id].open = FALSE,
                        !.update_needed = TRUE]

RECURSIVE ApplyParts(_, _)
\* for part_type, content in parts
ApplyParts(doc, parts) ==
    IF parts = <<>> THEN doc
    ELSE ApplyParts(ApplyPart(doc, Head(parts)), Tail(parts))

\* the display string built while streaming (lines 270-298): per block of
\* thinking_order its data-open and <details open> attributes, its content
\* and whether the cursor span follows it; then the answer text; then whether
\* the trailing cursor span is there
StreamRender(th, order, output) ==
    [bound |-> TRUE,
     blocks |-> [i \in 1..Len(order) |->
                    [data_open |-> th[order[i]].open,
                     details_open |-> th[order[i]].open,
                     content |-> th[order[i]].content,
                     cursor |-> th[order[i]].open]],
     tail |-> Join(output),
     cursor |-> \E id \in DOMAIN th : th[id].open]

\* (mutant) the final update renders the blocks as the streaming update does
FinalRenderKeepsOpen(th, order, output) == StreamRender(th, order, output)

\* the display string of the final update (lines 305-316)
FinalRender(th, order, output) ==
    [bound |-> TRUE,
     blocks |-> [i \in 1..Len(order) |->
                    [data_open |-> FALSE,
                     details_open |-> FALSE,
                     content |-> th[order[i]].content,
                     cursor |-> FALSE]],
     tail |-> Join(output),
     cursor |-> FALSE]

----------------------------------------------------------------------------
(* What the server sends *)

RECURSIVE Chunkings(_, _)
\* the ways of cutting the text t into at most n non-empty deltas
Chunkings(t, n) ==
    IF t = <<>> THEN {<<>>}
    ELSE IF n = 0 THEN {}
    ELSE UNION {{<<Upto(t, k)>> \o c : c \in Chunkings(From(t, k), n - 1)} :
                    k \in 1..Len(t)}

\* response texts
TextPlain == <<"a", "b">>  \* ab
TextBlock == <<"a", "<", "t", "h", "i", "n", "k", ">", "b", "<", "/", "t", "h", "i", "n", "k", ">", "c">>  \* a<think>b</think>c
TextNested == <<"<", "t", "h", "i", "n", "k", ">", "A", "<", "t", "h", "i", "n", "k", ">", "B", "<", "/", "t", "h", "i", "n", "k", ">", "C">>  \* <think>A<think>B</think>C
TextPartial == <<"<", "t", "h", "i", "n", "k", ">", "p", "a", "r", "t", "i", "a", "l">>  \* <think>partial
TextTwoBlocks == <<"<", "t", "h", "i", "n", "k", ">", "a", "<", "/", "t", "h", "i", "n", "k", ">", "<", "t", "h", "i", "n", "k", ">", "b">>  \* <think>a</think><think>b
TextStrayClose == <<"a", "<", "/", "t", "h", "i", "n", "k", ">", "b">>  \* a</think>b
Texts == {TextPlain, TextBlock, TextNested, TextPartial, TextTwoBlocks, TextStrayClose}

\* the deltas of the end-to-end scenario
Scenario == << <<"H", "e", "l", "l", "o", " ">>, <<"<", "t", "h">>, <<"i", "n", "k", ">", "r", "e", "a", "s", "o", "n", "i", "n", "g">>, <<" ", "h", "e", "r", "e", "<", "/", "t", "h", "i">>, <<"n", "k", ">", " ", "w", "o", "r", "l", "d">> >>

\* the responses of the server: each a sequence of deltas
Responses == {Scenario} \cup UNION {Chunkings(t, MaxDeltas) : t \in Texts}

----------------------------------------------------------------------------
(* The script *)

\* the first entry of st.session_state.messages (lines 192-198)
SystemMessage == [role |-> "user", content |-> "system", is_system |-> TRUE]
\* what the user types into st.chat_input
Prompt == "prompt"
\* st.session_state.thinking = {}
NoBlocks == [id \in {} |-> [content |-> <<>>, open |-> FALSE]]

\* the session before the first prompt (lines 191-200)
Init ==
    /\ pc = "idle"
    /\ turn = 0
    /\ messages = <<SystemMessage>>
    /\ thinking = NoBlocks
    /\ parser = NewParser
    /\ thinking_order = <<>>
    /\ final_output = <<>>
    /\ display_content = Unbound
    /\ stream = <<>>
    /\ line = NoLine
    /\ fed = <<>>
    /\ events = <<>>
    /\ calls = <<>>
    /\ junk = 0
    /\ errors = <<>>
    /\ exc = "none"

\* lines 207-217: a script run that finds a prompt; every script variable
\* starts unbound in a run
TurnSetup ==
    /\ pc # "streaming"
    /\ turn' = turn + 1
    /\ parser' = NewParser
    /\ thinking_order' = <<>>
    /\ final_output' = <<>>
    /\ line' = NoLine
    /\ fed' = <<>>
    /\ events' = <<>>
    /\ calls' = <<>>
    /\ junk' = 0
    /\ UNCHANGED thinking

\* lines 326-327 after the try statement: the history append reads
\* display_content, a NameError when no statement of this run assigned it
Commit(content, userMessages) ==
    IF content.bound
    THEN /\ messages' = Append(userMessages,
                               [role |-> "assistant", content |-> content])
         /\ pc' = "turn_done"
         /\ exc' = "none"
    ELSE /\ messages' = userMessages
         /\ pc' = "crashed"
         /\ exc' = "NameError"

\* lines 207-236: the prompt is submitted and requests.post returns the
\* response r
SubmitPrompt(r) ==
    /\ TurnSetup
    /\ messages' = Append(messages, [role |-> "user", content |-> Prompt])
    /\ display_content' = Unbound
    /\ stream' = r
    /\ errors' = <<>>
    /\ exc' = "none"
    /\ pc' = "streaming"

\* lines 207-236, 321-327: the prompt is submitted and requests.post raises
\* a RequestException
ConnectFail ==
    /\ TurnSetup
    /\ display_content' = Unbound
    /\ stream' = <<>>
    /\ errors' = <<"API Error">>
    /\ Commit(Unbound, Append(messages, [role |-> "user", content |-> Prompt]))

\* lines 238-302: the body of the loop for the line l
RecvLine(l) ==
    LET cleaned == CleanRawBytes(l)
        chunk == ProcessChunk(cleaned)
        r == Process(parser, chunk.s)
        doc == ApplyParts([thinking |-> thinking,
                           thinking_order |-> thinking_order,
                           final_output |-> final_output,
                           update_needed |-> FALSE], r.parts)
    IN  /\ pc = "streaming"
        /\ line' = l
        /\ UNCHANGED <<turn, messages, errors>>
        /\ IF l.empty
           THEN UNCHANGED <<pc, exc, parser, thinking, thinking_order,
                            final_output, display_content, fed, events, calls>>
           ELSE IF cleaned = Raised \/ chunk = Raised
           THEN \* an exception leaving _clean_raw_bytes or _process_chunk is
                \* none of those the except clauses of the turn catch
                /\ pc' = "crashed"
                /\ exc' = "Exception"
                /\ UNCHANGED <<parser, thinking, thinking_order, final_output,
                               display_content, fed, events, calls>>
           ELSE IF ~Truthy(chunk)
           THEN UNCHANGED <<pc, exc, parser, thinking, thinking_order,
                            final_output, display_content, fed, events, calls>>
           ELSE IF chunk.t # "str"
           THEN \* self.buffer += text raises TypeError, which no except catches
                /\ pc' = "crashed"
                /\ exc' = "TypeError"
                /\ UNCHANGED <<parser, thinking, thinking_order, final_output,
                               display_content, fed, events, calls>>
           ELSE /\ UNCHANGED <<pc, exc>>
                /\ parser' = r.parser
                /\ thinking' = doc.thinking
                /\ thinking_order' = doc.thinking_order
                /\ final_output' = doc.final_output
                /\ display_content' =
                       IF doc.update_needed
                       THEN StreamRender(doc.thinking, doc.thinking_order,
                                         doc.final_output)
                       ELSE display_content
                /\ fed' = Append(fed, chunk.s)
                /\ events' = events \o r.parts
                /\ calls' = Append(calls, r.parts)

\* iter_lines yields the line that carries the next delta, in the format f
DeliverDelta(f) ==
    /\ stream # <<>>
    /\ RecvLine(Wrap(f, Head(stream)))
    /\ stream' = Tail(stream)
    /\ UNCHANGED junk

\* iter_lines yields a line that is no delta of the response text
DeliverOther(l) ==
    /\ junk < MaxJunk
    /\ RecvLine(l)
    /\ junk' = junk + 1
    /\ UNCHANGED stream

\* lines 304-320, 326-327: iter_lines is exhausted
StreamEnd ==
    /\ pc = "streaming"
    /\ stream = <<>>
    /\ display_content' = FinalRender(thinking, thinking_order, final_output)
    /\ thinking' = NoBlocks
    /\ Commit(display_content', messages)
    /\ UNCHANGED <<turn, parser, thinking_order, final_output, stream, line,
                   fed, events, calls, junk, errors>>

\* lines 321-322, 326-327: iter_lines raises a RequestException
TransportError ==
    /\ pc = "streaming"
    /\ errors' = Append(errors, "API Error")
    /\ Commit(display_content, messages)
    /\ UNCHANGED <<turn, thinking, parser, thinking_order, final_output,
                   display_content, stream, line, fed, events, calls, junk>>

\* one turn of a fresh session
Next ==
    \/ \E r \in Responses : turn = 0 /\ SubmitPrompt(r)
    \/ turn = 0 /\ ConnectFail
    \/ \E f \in Formats : DeliverDelta(f)
    \/ \E l \in OtherLines : DeliverOther(l)
    \/ StreamEnd
    \/ TransportError

Spec == Init /\ [][Next]_vars

\* the responses of the server in a session of several turns
SessionResponses ==
    { << <<"<", "t", "h", "i", "n", "k", ">", "a">> >>,
      << <<"x", "<", "t", "h", "i", "n", "k", ">", "b">> >>,
      << <<"<", "t", "h", "i", "n", "k", ">", "a", "<", "/", "t", "h", "i", "n", "k", ">">>,
         <<"c">> >> }

\* a session of several turns: every prompt reruns the script, with
\* st.session_state kept from the run before
SessionNext ==
    \/ \E r \in SessionResponses : turn < MaxTurns /\ SubmitPrompt(r)
    \/ turn < MaxTurns /\ ConnectFail
    \/ \E f \in Formats : DeliverDelta(f)
    \/ StreamEnd
    \/ TransportError

SessionSpec == Init /\ [][SessionNext]_vars


----------------------------------------------------------------------------
(* One call of ThinkParser.process, iteration by iteration *)

\* the buffers a call starts its loop with: the pieces of the response texts
LoopBuffers ==
    {<<>>} \cup UNION {{SubSeq(t, i, j) : i \in 1..Len(t), j \in 1..Len(t)} : t \in Texts}

\* lines 63-64: the delta is appended to the buffer and parts is empty; the
\* parser is in either state
LoopInit ==
    /\ pc = "process"
    /\ parser \in {[buffer |-> b, in_think |-> FALSE, open_think_id |-> NoId] :
                      b \in LoopBuffers}
               \cup {[buffer |-> b, in_think |-> TRUE, open_think_id |-> ThinkId(<<>>)] :
                      b \in LoopBuffers}
    /\ events = <<>>
    /\ turn = 1
    /\ messages = <<SystemMessage>>
    /\ thinking = NoBlocks
    /\ thinking_order = <<>>
    /\ final_output = <<>>
    /\ display_content = Unbound
    /\ stream = <<>>
    /\ line = NoLine
    /\ fed = <<>>
    /\ calls = <<>>
    /\ junk = 0
    /\ errors = <<>>
    /\ exc = "none"

\* the loop record of the call in progress; events holds the local parts
LoopState ==
    [buffer |-> parser.buffer, in_think |-> parser.in_think,
     open_think_id |-> parser.open_think_id, parts |-> events, done |-> FALSE]

\* the fields of self in a loop record
Fields(p) ==
    [buffer |-> p.buffer, in_think |-> p.in_think, open_think_id |-> p.open_think_id]

\* lines 73-79, 88-95: an iteration that finds its marker and goes on
LoopIterate ==
    /\ pc = "process"
    /\ ~LoopStep(LoopState).done
    /\ parser' = Fields(LoopStep(LoopState))
    /\ events' = LoopStep(LoopState).parts
    /\ UNCHANGED <<pc, turn, messages, thinking, thinking_order, final_output,
                   display_content, stream, line, fed, calls, junk, errors, exc>>

\* lines 68-72, 82-87, 96: an iteration that breaks; process returns parts
LoopBreak ==
    /\ pc = "process"
    /\ LoopStep(LoopState).done
    /\ parser' = Fields(LoopStep(LoopState))
    /\ events' = LoopStep(LoopState).parts
    /\ pc' = "returned"
    /\ UNCHANGED <<turn, messages, thinking, thinking_order, final_output,
                   display_content, stream, line, fed, calls, junk, errors, exc>>

LoopNext == LoopIterate \/ LoopBreak

\* the interpreter keeps executing the loop
LoopSpec == LoopInit /\ [][LoopNext]_vars /\ WF_vars(LoopNext)


----------------------------------------------------------------------------
(* Vocabulary of the properties *)

RECURSIVE Payload(_, _)
\* the payloads of the events of the given type, concatenated in order
Payload(evs, type) ==
    IF evs = <<>> THEN <<>>
    ELSE (IF Head(evs).type = type THEN Head(evs).text ELSE <<>>)
             \o Payload(Tail(evs), type)

\* the number of events of the given type
Count(evs, type) == Cardinality({i \in 1..Len(evs) : evs[i].type = type})

\* the cut after n characters of t falls strictly inside a marker of t
InsideMarkerCut(t, n) ==
    \E m \in {OpenMarker, CloseMarker} : \E i \in 0..Len(t) :
        OccursAt(t, m, i) /\ i < n /\ n < i + Len(m)

\* s begins with prefix
StartsWith(s, prefix) == OccursAt(s, prefix, 0)

RECURSIVE Outside(_, _)
\* the characters of t outside think blocks and markers, read left to right:
\* <think> opens a block when none is open, </think> closes the open block
Outside(t, inside) ==
    IF t = <<>> THEN <<>>
    ELSE IF ~inside
    THEN IF StartsWith(t, OpenMarker)
         THEN Outside(From(t, Len(OpenMarker)), TRUE)
         ELSE <<Head(t)>> \o Outside(Tail(t), FALSE)
    ELSE IF StartsWith(t, CloseMarker)
         THEN Outside(From(t, Len(CloseMarker)), FALSE)
         ELSE Outside(Tail(t), TRUE)

\* the turn's stream was read to its end and the final update was made
StreamEnded == pc = "turn_done" /\ errors = <<>>

\* the final display of a fresh parser and projector fed t as one delta
OneShotRender(t) ==
    LET r == Process(NewParser, t)
        doc == ApplyParts([thinking |-> NoBlocks, thinking_order |-> <<>>,
                           final_output |-> <<>>, update_needed |-> FALSE],
                          r.parts)
    IN  FinalRender(doc.thinking, doc.thinking_order, doc.final_output)

----------------------------------------------------------------------------
(* Properties *)

\* C1 (marker-split invariance): when a<think>b</think>c arrives in two
\* deltas cut strictly inside one of its markers, the parser still emits one
\* ThinkOpen and one ThinkClose, and no marker character is Text or
\* ThinkUpdate content.
C1_MarkerSplitInvariance ==
    (/\ Len(fed) = 2
     /\ Join(fed) = TextBlock
     /\ InsideMarkerCut(TextBlock, Len(fed[1])))
    => /\ Count(events, "think_open") = 1
       /\ Count(events, "think_close") = 1
       /\ Payload(events, "text") = <<"a", "c">>
       /\ Payload(events, "think_update") = <<"b">>

\* C2 (chunking invariance): the final render of a stream read to its end is
\* the final render of the same text fed as one single delta.
C2_ChunkingInvariance ==
    (StreamEnded /\ fed # <<>>) => display_content = OneShotRender(Join(fed))

\* C3 (end-to-end scenario): the five deltas of the scenario yield Text,
\* ThinkOpen, two ThinkUpdates, ThinkClose and Text, the think events with
\* one id.
C3_Scenario ==
    fed = Scenario =>
        \E id0 \in {events[i].id : i \in 1..Len(events)} \ {NoId} :
            events = << TextPart(Scenario[1]),
                        ThinkOpenPart(id0),
                        ThinkUpdatePart(id0, From(Scenario[3], 4)),
                        ThinkUpdatePart(id0, Upto(Scenario[4], 5)),
                        ThinkClosePart(id0),
                        TextPart(From(Scenario[5], 3)) >>

\* C4 (order preservation): the Text payloads, concatenated, are the
\* characters of the input that lie outside think blocks and markers.
C4_OrderPreservation ==
    (pc = "streaming" /\ stream = <<>>) =>
        Payload(events, "text") = Outside(Join(fed), FALSE)

\* the payloads of the ThinkUpdates that follow the last ThinkOpen
SinceLastOpen(evs) ==
    LET opens == {i \in 1..Len(evs) : evs[i].type = "think_open"}
        last == CHOOSE i \in opens : \A j \in opens : j <= i
    IN  Payload(SubSeq(evs, last + 1, Len(evs)), "think_update")

\* a block of the final render: closed, without cursor
ClosedBlock(content) ==
    [data_open |-> FALSE, details_open |-> FALSE, content |-> content,
     cursor |-> FALSE]

\* C5 (no nested reopening): no ThinkOpen is emitted between a ThinkOpen and
\* the next ThinkClose; <think>A<think>B</think>C as one delta yields one
\* ThinkOpen, the content A<think>B, one ThinkClose and the Text C; and in
\* whatever deltas it arrives, once its first marker has opened a block the
\* second marker is content of that block and opens none.
C5_NoNestedReopening ==
    /\ \A i, j \in 1..Len(events) :
          (i < j /\ events[i].type = "think_open" /\ events[j].type = "think_open")
          => \E k \in (i + 1)..(j - 1) : events[k].type = "think_close"
    /\ fed = <<TextNested>> =>
          \E id \in {events[i].id : i \in 1..Len(events)} \ {NoId} :
              events = << ThinkOpenPart(id),
                          ThinkUpdatePart(id, SubSeq(TextNested, 8, 16)),
                          ThinkClosePart(id),
                          TextPart(<<"C">>) >>
    /\ (Join(fed) = TextNested /\ Len(fed[1]) >= Len(OpenMarker)) =>
          /\ Count(events, "think_open") = 1
          /\ StartsWith(Payload(events, "think_update"), SubSeq(TextNested, 8, 16))

C5_Witness ==
    /\ fed = <<TextNested>>
    /\ Count(events, "think_open") = 1
    /\ Payload(events, "think_update") = SubSeq(TextNested, 8, 16)
    /\ Payload(events, "text") = <<"C">>

\* C6 (unterminated block): the final render of a stream read to its end
\* shows every block of thinking_order closed and no cursor; when the stream
\* ended inside a block, the last block shows the content accumulated since
\* it was opened: for <think>partial, one closed block with content partial.
C6_UnterminatedBlock ==
    StreamEnded =>
        /\ ~display_content.cursor
        /\ Len(display_content.blocks) = Len(thinking_order)
        /\ \A i \in 1..Len(display_content.blocks) :
              display_content.blocks[i] = ClosedBlock(display_content.blocks[i].content)
        /\ parser.in_think =>
              /\ display_content.blocks # <<>>
              /\ display_content.blocks[Len(thinking_order)].content = SinceLastOpen(events)
              /\ Join(fed) = TextPartial =>
                    /\ display_content.blocks = <<ClosedBlock(From(TextPartial, 7))>>
                    /\ display_content.tail = <<>>

C6_Witness ==
    /\ StreamEnded
    /\ parser.in_think
    /\ Count(events, "think_close") = 0
    /\ Join(fed) = TextPartial
    /\ display_content.blocks = <<ClosedBlock(<<"p", "a", "r", "t", "i", "a", "l">>)>>

\* C7 (block id uniqueness): no two ThinkOpen events of one parser carry the
\* same id.
C7_UniqueIds ==
    \A i, j \in 1..Len(events) :
        (i < j /\ events[i].type = "think_open" /\ events[j].type = "think_open")
        => events[i].id # events[j].id

\* a step of the consumer loop: one line is taken from iter_lines
LineStep == pc = "streaming" /\ (junk' # junk \/ stream' # stream)

\* envelopes whose content is the empty string or absent
EmptyDeltaLines ==
    { Line("", TRUE, Ollama(JStr(<<>>))),
      Line(DataPrefix, TRUE, OpenAI(JStr(<<>>))),
      Line("", TRUE, Ollama(JNone)),
      Line("", TRUE, OpenAI(JNone)),
      Line("", TRUE, JObj([message |-> JObj(NoKeys)])),
      Line("", TRUE, JObj([choices |-> JArr(<<JObj([delta |-> JObj(NoKeys)])>>)])) }

\* C8 (empty-delta skip): for a line whose envelope has an empty or absent
\* content, _process_chunk yields None, process is not called, no event is
\* produced, and parser, block map, thinking_order and tail are unchanged.
C8_EmptyDeltaSkip ==
    [][(LineStep /\ line' \in EmptyDeltaLines) =>
          /\ ProcessChunk(CleanRawBytes(line')) = JNone
          /\ UNCHANGED <<pc, exc, parser, thinking, thinking_order, final_output,
                         display_content, fed, events, calls>>]_vars

C8_Witness ==
    /\ pc = "streaming"
    /\ line \in {Line("", TRUE, Ollama(JStr(<<>>))), Line(DataPrefix, TRUE, OpenAI(JStr(<<>>)))}
    /\ parser.in_think
    /\ events # <<>>

\* lines that do not decode: not JSON, not UTF-8, a prefix that is not "data: "
DecodeErrorLines ==
    { Line(DataPrefix, TRUE, NotJson),
      Line("", FALSE, Ollama(JStr(<<"a">>))),
      Line("data:", TRUE, Ollama(JStr(<<"a">>))) }

\* decoded values that lack the keys of both envelope shapes
ShapeErrorLines ==
    { Line("", TRUE, JObj([message |-> JNone])),
      Line("", TRUE, JObj([done |-> JNum(1)])),
      Line("", TRUE, JObj(NoKeys)),
      Line("", TRUE, JObj([choices |-> JArr(<<>>)])),
      Line("", TRUE, JObj([choices |-> JArr(<<JObj(NoKeys)>>)])),
      Line("", TRUE, JObj([choices |-> JNone])),
      Line("", TRUE, JObj([choices |-> JStr(<<"x">>)])),
      Line("", TRUE, JNum(5)),
      Line("", TRUE, JArr(<<JNum(1)>>)),
      Line("", TRUE, JStr(<<"c", "h", "o", "i", "c", "e", "s">>)),
      Line("", TRUE, JNone) }

\* C9 (decode and shape errors): for every line neither _clean_raw_bytes nor
\* _process_chunk raises; a line with a decode or a shape error yields None
\* and is dropped: no event, no error report, no exception, parser and render
\* document unchanged, and the loop goes on with the rest of the stream.
C9_ErrorsRecoveredLocally ==
    [][LineStep =>
          /\ CleanRawBytes(line') # Raised
          /\ ProcessChunk(CleanRawBytes(line')) # Raised
          /\ line' \in DecodeErrorLines \cup ShapeErrorLines =>
                /\ ProcessChunk(CleanRawBytes(line')) = JNone
                /\ UNCHANGED <<pc, exc, errors, parser, thinking, thinking_order,
                               final_output, display_content, fed, events, calls,
                               stream, messages>>]_vars

C9_Witness ==
    /\ pc = "streaming"
    /\ line \in DecodeErrorLines \cup ShapeErrorLines
    /\ events # <<>>
    /\ stream # <<>>

\* C10 (transport error): a turn in which the transport failed reports one
\* error and completes: the history append after the try statement succeeds
\* and commits the output rendered so far.
C10_TransportErrorEndsTurnCleanly ==
    errors # <<>> =>
        /\ Len(errors) = 1
        /\ pc = "turn_done"
        /\ exc = "none"
        /\ messages[Len(messages)] = [role |-> "assistant", content |-> display_content]

\* the index of the last ThinkOpen or ThinkClose before events[i], or 0
LastMark(evs, i) ==
    LET marks == {k \in 1..(i - 1) : evs[k].type \in {"think_open", "think_close"}}
    IN  IF marks = {} THEN 0 ELSE CHOOSE k \in marks : \A m \in marks : m <= k

\* a block is open when events[i] is emitted
OpenAt(evs, i) == LastMark(evs, i) # 0 /\ evs[LastMark(evs, i)].type = "think_open"

\* C12 (event stream well-formedness): a ThinkUpdate or ThinkClose is
\* emitted only while a block is open and carries the id of the last
\* ThinkOpen; a ThinkOpen or a Text is emitted only while no block is open.
C12_EventStreamWellFormed ==
    \A i \in 1..Len(events) :
        IF events[i].type \in {"think_update", "think_close"}
        THEN OpenAt(events, i) /\ events[i].id = events[LastMark(events, i)].id
        ELSE ~OpenAt(events, i)

C12_Witness ==
    /\ Join(fed) = TextTwoBlocks
    /\ Len(fed) = 2
    /\ Count(events, "think_open") = 2
    /\ Count(events, "think_close") = 1
    /\ Count(events, "text") = 0

\* C15 (parser state invariant): in_think holds exactly when open_think_id
\* is not None.
C15_InThinkIffOpenId == parser.in_think <=> parser.open_think_id # NoId

C15_Witness ==
    /\ ~parser.in_think
    /\ parser.open_think_id = NoId
    /\ Count(events, "think_close") = 1
    /\ Len(fed) = 2

\* C18 (no retained input): after every return of process the buffer is
\* empty.
C18_BufferEmptyAfterProcess == parser.buffer = <<>>

C18_Witness ==
    /\ fed = << <<"a", "<">> >>
    /\ events = <<TextPart(<<"a", "<">>)>>
    /\ parser.buffer = <<>>

RECURSIVE Rebuild(_)
\* the events written back as text: payloads as they are, ThinkOpen as
\* <think>, ThinkClose as </think>
Rebuild(evs) ==
    IF evs = <<>> THEN <<>>
    ELSE (CASE Head(evs).type = "think_open" -> OpenMarker
            [] Head(evs).type = "think_close" -> CloseMarker
            [] OTHER -> Head(evs).text) \o Rebuild(Tail(evs))

\* C19 (losslessness): the events written back as text are the
\* concatenation of the deltas fed so far.
C19_Lossless == Rebuild(events) = Join(fed)

C19_Witness ==
    /\ Len(fed) = 2
    /\ Join(fed) = TextNested
    /\ InsideMarkerCut(TextNested, Len(fed[1]))
    /\ Count(events, "think_close") = 1

\* the indices of the ThinkOpen events, in order of emission
OpenIndices(evs) == {i \in 1..Len(evs) : evs[i].type = "think_open"}

\* the index of the k-th ThinkOpen
KthOpen(evs, k) ==
    CHOOSE i \in OpenIndices(evs) :
        Cardinality({j \in OpenIndices(evs) : j <= i}) = k

\* the ThinkUpdate payloads between the k-th ThinkOpen and the next one
KthContent(evs, k) ==
    LET from == KthOpen(evs, k)
        to == IF k < Cardinality(OpenIndices(evs))
              THEN KthOpen(evs, k + 1) - 1 ELSE Len(evs)
    IN  Payload(SubSeq(evs, from, to), "think_update")

\* C13 (render document fidelity): while streaming, thinking_order names one
\* block per ThinkOpen, in opening order, and each block holds the
\* ThinkUpdate payloads emitted for it; the final render shows these blocks
\* with these contents.
C13_RenderDocumentFidelity ==
    /\ pc = "streaming" =>
          /\ Len(thinking_order) = Count(events, "think_open")
          /\ \A k \in 1..Len(thinking_order) :
                thinking[thinking_order[k]].content = KthContent(events, k)
    /\ StreamEnded =>
          display_content.blocks =
              [k \in 1..Count(events, "think_open") |->
                  ClosedBlock(KthContent(events, k))]

\* C14 (closed is permanent): during a stream, the open flag of an entry of
\* the block map that is false does not become true.
C14_ClosedIsPermanent ==
    [][(pc = "streaming" /\ pc' = "streaming") =>
          \A id \in DOMAIN thinking :
              ~thinking[id].open => ~thinking'[id].open]_vars

RECURSIVE Marks(_, _, _)
\* the markers of t that a left-to-right parse recognises: <think> when no
\* block is open, </think> when one is; at is the 0-based index in the text
Marks(t, offset, inside) ==
    LET m == IF inside THEN CloseMarker ELSE OpenMarker
        i == Find(t, m)
    IN  IF i = -1 THEN {}
        ELSE {[at |-> offset + i, len |-> Len(m)]}
                 \cup Marks(From(t, i + Len(m)), offset + i + Len(m), ~inside)

\* the delta boundaries, as numbers of characters before them
Cuts(ds) == {Len(Join(SubSeq(ds, 1, k))) : k \in 1..(Len(ds) - 1)}

\* no delta boundary falls strictly inside a recognised marker
CutsRespectMarkers(ds) ==
    \A c \in Cuts(ds) : \A m \in Marks(Join(ds), 0, FALSE) :
        ~(m.at < c /\ c < m.at + m.len)

RECURSIVE Coalesce(_, _)
\* evs without ids and without empty ThinkUpdates, adjacent Texts and
\* adjacent ThinkUpdates merged; acc is what is normalised so far
Coalesce(evs, acc) ==
    IF evs = <<>> THEN acc
    ELSE LET e == [type |-> Head(evs).type, text |-> Head(evs).text]
         IN  IF e.type = "think_update" /\ e.text = <<>>
             THEN Coalesce(Tail(evs), acc)
             ELSE IF /\ acc # <<>>
                     /\ e.type \in {"text", "think_update"}
                     /\ acc[Len(acc)].type = e.type
             THEN Coalesce(Tail(evs),
                           [acc EXCEPT ![Len(acc)].text = @ \o e.text])
             ELSE Coalesce(Tail(evs), Append(acc, e))

\* C20 (restricted chunking invariance): when no delta boundary falls
\* strictly inside a marker the single-delta parse recognises, the events of
\* the deltas equal the events of the single delta, ids ignored, empty
\* ThinkUpdates dropped, adjacent Texts and adjacent ThinkUpdates merged.
C20_RestrictedChunkingInvariance ==
    (fed # <<>> /\ CutsRespectMarkers(fed)) =>
        Coalesce(events, <<>>) =
            Coalesce(Process(NewParser, Join(fed)).parts, <<>>)

C20_Witness ==
    /\ Len(fed) = 2
    /\ Join(fed) = TextNested
    /\ InsideMarkerCut(TextNested, Len(fed[1]))
    /\ CutsRespectMarkers(fed)
    /\ Len(events) > Len(Coalesce(events, <<>>))

\* the ids thinking_order names
Ordered == {thinking_order[k] : k \in 1..Len(thinking_order)}

\* C11 (per-turn lifecycle): during a turn the block map holds only blocks
\* opened in this turn, none of an earlier turn however that turn ended, and
\* the trailing cursor is shown exactly when a block of this turn is open.
C11_PerTurnLifecycle ==
    pc = "streaming" =>
        /\ DOMAIN thinking = Ordered
        /\ display_content.bound =>
              (display_content.cursor <=> \E id \in Ordered : thinking[id].open)

\* C16 (at most one open block): during a turn at most one entry of the
\* block map is open, and an open entry is the one the parser's
\* open_think_id names.
C16_AtMostOneOpen ==
    pc = "streaming" =>
        /\ Cardinality({id \in DOMAIN thinking : thinking[id].open}) <= 1
        /\ \A id \in DOMAIN thinking :
              thinking[id].open => id = parser.open_think_id

\* C17 (termination of process): an iteration that does not break removes a
\* whole marker, at least 7 characters, from the buffer, and every call
\* returns.
C17_ProcessTerminates ==
    /\ [][(pc = "process" /\ pc' = "process") =>
             Len(parser'.buffer) + OpenSkip <= Len(parser.buffer)]_vars
    /\ <>(pc = "returned")

C17_Witness ==
    /\ pc = "returned"
    /\ Count(events, "think_open") = 2
    /\ Count(events, "think_close") = 1
    /\ parser.buffer = <<>>

====
